---- MODULE Spec2Model ----
(***************************************************************************)
(* Verification model of the room/session engine of 4cecoder/land.         *)
(*                                                                         *)
(* The repository holds two implementations of the same engine:            *)
(*   - src/goserver/main.go : one goroutine per connection (wsHandler),    *)
(*     one goroutine per started game (startGame), a sync.Mutex per room   *)
(*     and an unguarded global map `rooms`;                                *)
(*   - src/server.ts : the Deno server, whose handlers (onopen, onmessage, *)
(*     onclose, the setInterval callback) each run to completion on one    *)
(*     event loop.                                                         *)
(* The Go engine is modelled by the plain names (Spec, FairSpec), the Deno *)
(* engine by the names starting with ts (SpecTs).                          *)
(***************************************************************************)
EXTENDS Integers, Sequences, FiniteSets, TLC

\* ---------------------------------------------------------------- bounds

\* Number of client connections (goroutines running wsHandler), and how many
\* of them send messages.
NumConns == 5
NumTalkers == 2
\* Number of room identifiers generateRoomID can hand out in one run.
MaxRooms == 2
\* Number of inbound messages read over one run (all connections together).
MaxMsgs == 2
\* How many values the random draws (rand.Intn, getRandomColor) range over.
NumRand == 1
NumColors == 1
\* How many startGame goroutines of one room the model follows.
MaxLoops == 2
\* The Deno server: how many colors getRandomColor ranges over, how many
\* interval callbacks run over one run, and how many sockets open.
TsNumColors == 2
MaxTicks == 2
NumTsConns == 2
\* How many connections may be between their accept and their read loop at
\* one time, and how many connections fail on receive over one run.
MaxConnecting == 2
MaxLeaves == 1
\* How many connections' outbound channels fail over one run.
MaxFaults == 1

\* ------------------------------------------------------- program constants

boardSize == 40
playerSpeed == 1
maxPlayers == 4
\* gameInterval and gameDuration, in milliseconds.
gameInterval == 100
gameDuration == 180000

\* server.ts: boardSize, maxPlayers, gameInterval and gameDuration.
tsBoardSize == 50
tsMaxPlayers == 4
tsGameInterval == 100
tsGameDuration == 180000

\* The palette of getRandomColor, in the order of the source.
colors ==
  << "#f44336", "#e91e63", "#9c27b0", "#673ab7", "#3f51b5", "#2196f3",
     "#03a9f4", "#00bcd4", "#009688", "#4caf50", "#8bc34a", "#cddc39",
     "#ffeb3b", "#ffc107", "#ff9800", "#ff5722" >>

\* ------------------------------------------------------------ environment

Conns == 1..NumConns
Talkers == 1..NumTalkers
tsConns == 1..NumTsConns
RoomIds == 1..MaxRooms
NoRoom == 0

\* The values a random draw from 0..n-1 is sampled from: the k-th sample is
\* 0, n-1, 1, n-2, ...
RandSample(n, k) ==
  IF k % 2 = 1 THEN (k - 1) \div 2 ELSE n - (k \div 2)

RandCoords == { RandSample(boardSize, k) : k \in 1..NumRand }
tsRandCoords == { RandSample(tsBoardSize, k) : k \in 1..NumRand }

\* The colors a draw of server.ts's getRandomColor ("#" and six random hex
\* digits) is sampled from.
tsColorSamples == << "#000000", "#FFFFFF", "#0000FF", "#00FF00", "#FF0000" >>

Pos(x, y) == [x |-> x, y |-> y]

\* The inbound wire record: the fields of Message a handler reads.  A payload
\* json.Unmarshal rejects is the record of type "#malformed".
InMsg(t, d, n, m) == [type |-> t, direction |-> d, name |-> n, message |-> m]

NoInMsg == InMsg("", "", "", "")

Inbound ==
  { InMsg("join", "", "ann", ""),
    InMsg("chat", "", "", "hi"),
    InMsg("stop", "", "", ""),
    InMsg("ping", "", "", ""),
    InMsg("#malformed", "", "", "") }
  \cup { InMsg("move", d, "", "") : d \in {"up", "down", "left", "right"} }

\* An outbound wire record (the fields of Message the server fills) with the
\* connections it was written to.  winner is a player id, 0 for none; players
\* is the list of player ids of the embedded game state.
OutMsg(t, to) ==
  [type |-> t, to |-> to, playerID |-> 0, name |-> "", message |-> "",
   x |-> 0, y |-> 0, winner |-> 0, remaining |-> 0, players |-> << >>]

\* ------------------------------------------------------------------ state

VARIABLES
  rooms,           \* var rooms: the ids present in the directory map
  nextRoom,        \* number of room ids generated so far
  Players,         \* Room.Players of each room: the set of map keys
  gsPlayers,       \* Room.GameState.Players: the slice startGame appends to
  ChatMessages,    \* Room.GameState.ChatMessages
  Mutex,           \* Room.Mutex: 0 when free, else the task holding it
  loops,           \* per room, the position of each startGame goroutine
  pc,              \* position of each connection's wsHandler goroutine
  room,            \* wsHandler's local `room`
  playerRoom,      \* Player.Room
  Position,        \* Player.Position
  TargetPosition,  \* Player.TargetPosition
  Name,            \* Player.Name
  Color,           \* Player.Color
  Score,           \* Player.Score
  msg,             \* the message processMessage is working on
  chatLocal,       \* the slice value append() read in processMessage
  msgCount,        \* inbound messages read so far
  wire,            \* the messages written by the last step that sent any
  outbound         \* each connection's outbound channel: "ok", "broken"
                   \* (writes return an error) or "blocked" (writes wait)

\* The state of the Deno server (server.ts).
VARIABLES
  tsRooms,      \* const rooms: the ids in the Map (its order is the id order)
  tsNextRoom,   \* number of room ids generated so far
  tsPlayers,    \* Room.players: the Map's keys in insertion order
  tsGsPlayers,  \* Room.gameState.players
  tsBoard,      \* Room.gameState.board, as the function from claimed cells
  tsChat,       \* Room.gameState.chatMessages
  tsStart,      \* Room.startTime
  tsInterval,   \* whether the room's setInterval timer is set
  tsNow,        \* Date.now()
  tsSock,       \* each socket: "new", "open" (in playerMap), "closed", or
                \* "down" once the server process has exited
  tsRoom,       \* Player.room, 0 for null
  tsPosition,   \* Player.position
  tsTarget,     \* Player.targetPosition
  tsName,       \* Player.name
  tsColor,      \* Player.color
  tsScore,      \* Player.score
  tsWire,       \* the messages written by the last handler that sent any
  tsError,      \* the handler whose last run threw, "" for none
  tsClaimed,    \* per room, each claimed coordinate's last claiming color
  tsMsgCount,   \* inbound messages delivered so far
  tsLastCmd,    \* per socket: "move" after a move, "move-stop" after a stop
                \* that came next, "" otherwise
  tsTicks       \* interval callbacks run so far

goVars ==
  << rooms, nextRoom, Players, gsPlayers, ChatMessages, Mutex, loops, pc, room,
     playerRoom, Position, TargetPosition, Name, Color, Score, msg, chatLocal,
     msgCount, wire, outbound >>

tsVars ==
  << tsRooms, tsNextRoom, tsPlayers, tsGsPlayers, tsBoard, tsChat, tsStart,
     tsInterval, tsNow, tsSock, tsRoom, tsPosition, tsTarget, tsName, tsColor,
     tsScore, tsWire, tsError, tsClaimed, tsMsgCount, tsLastCmd, tsTicks >>

vars == << goVars, tsVars >>

\* A task's name as a holder of a room's Mutex: connection c is c, the i-th
\* startGame goroutine of the room is NumConns + i.
ConnTask(c) == c
LoopTask(i) == NumConns + i
Free == 0

\* The positions of wsHandler before its read loop, and after it.
Connecting == {"create", "join", "joining"}
Leaving == {"remove", "removing", "closed"}

\* ------------------------------------------------------------ pure helpers

\* getRandomPosition: both coordinates drawn by rand.Intn(boardSize).
getRandomPosition == { Pos(x, y) : x \in RandCoords, y \in RandCoords }

\* getRandomColor: one of the palette.
getRandomColor == { colors[i] : i \in 1..NumColors }

\* updatePlayerPosition: the target moves by playerSpeed along the named
\* axis, with no bound check, and the position follows it.
updatePlayerPosition(tp, direction) ==
  CASE direction = "up"    -> Pos(tp.x, tp.y - playerSpeed)
    [] direction = "down"  -> Pos(tp.x, tp.y + playerSpeed)
    [] direction = "left"  -> Pos(tp.x - playerSpeed, tp.y)
    [] direction = "right" -> Pos(tp.x + playerSpeed, tp.y)
    [] OTHER               -> tp

\* ------------------------------------------------------------------- Init

Init ==
  /\ rooms = {}
  /\ nextRoom = 0
  /\ Players = [r \in RoomIds |-> {}]
  /\ gsPlayers = [r \in RoomIds |-> << >>]
  /\ ChatMessages = [r \in RoomIds |-> << >>]
  /\ Mutex = [r \in RoomIds |-> Free]
  /\ loops = [r \in RoomIds |-> << >>]
  /\ pc = [c \in Conns |-> "accept"]
  /\ room = [c \in Conns |-> NoRoom]
  /\ playerRoom = [c \in Conns |-> NoRoom]
  /\ Position = [c \in Conns |-> Pos(0, 0)]
  /\ TargetPosition = [c \in Conns |-> Pos(0, 0)]
  /\ Name = [c \in Conns |-> ""]
  /\ Color = [c \in Conns |-> ""]
  /\ Score = [c \in Conns |-> 0]
  /\ msg = [c \in Conns |-> NoInMsg]
  /\ chatLocal = [c \in Conns |-> << >>]
  /\ msgCount = 0
  /\ wire = << >>
  /\ outbound = [c \in Conns |-> "ok"]
  /\ tsRooms = {}
  /\ tsNextRoom = 0
  /\ tsPlayers = [r \in RoomIds |-> << >>]
  /\ tsGsPlayers = [r \in RoomIds |-> << >>]
  /\ tsBoard = [r \in RoomIds |-> << >>]
  /\ tsChat = [r \in RoomIds |-> << >>]
  /\ tsStart = [r \in RoomIds |-> 0]
  /\ tsInterval = [r \in RoomIds |-> FALSE]
  /\ tsNow = 0
  /\ tsSock = [c \in Conns |-> "new"]
  /\ tsRoom = [c \in Conns |-> NoRoom]
  /\ tsPosition = [c \in Conns |-> Pos(0, 0)]
  /\ tsTarget = [c \in Conns |-> Pos(0, 0)]
  /\ tsName = [c \in Conns |-> ""]
  /\ tsColor = [c \in Conns |-> ""]
  /\ tsScore = [c \in Conns |-> 0]
  /\ tsWire = << >>
  /\ tsError = ""
  /\ tsClaimed = [r \in RoomIds |-> << >>]
  /\ tsMsgCount = 0
  /\ tsLastCmd = [c \in Conns |-> ""]
  /\ tsTicks = 0

\* ------------------------------------------------- wsHandler: the connect

\* createPlayer, then the scan of findOrCreateRoom: any room of the directory
\* with fewer than maxPlayers players is returned (map iteration order is
\* random); with none, the goroutine goes on to createRoom.  Neither rooms nor
\* room.Players is read under a lock.  Connections are numbered in the order
\* the server accepts them.
findOrCreateRoom(c) ==
  /\ pc[c] = "accept"
  /\ \A d \in Conns : d < c => pc[d] # "accept"
  /\ Cardinality({ d \in Conns : pc[d] \in Connecting }) < MaxConnecting
  /\ \E col \in getRandomColor, p \in getRandomPosition :
       /\ Color' = [Color EXCEPT ![c] = col]
       /\ Position' = [Position EXCEPT ![c] = p]
  /\ \/ \E r \in rooms :
          /\ Cardinality(Players[r]) < maxPlayers
          /\ room' = [room EXCEPT ![c] = r]
          /\ pc' = [pc EXCEPT ![c] = "join"]
     \/ /\ \A r \in rooms : Cardinality(Players[r]) >= maxPlayers
        /\ nextRoom < MaxRooms
        /\ pc' = [pc EXCEPT ![c] = "create"]
        /\ room' = room
  /\ UNCHANGED << rooms, nextRoom, Players, gsPlayers, ChatMessages, Mutex,
                  loops, playerRoom, TargetPosition, Name, Score, msg,
                  chatLocal, msgCount, wire >>
  /\ UNCHANGED outbound
  /\ UNCHANGED tsVars

\* createRoom: a room with a fresh id, an empty board and no players is put
\* into the directory.
createRoom(c) ==
  /\ pc[c] = "create"
  /\ nextRoom < MaxRooms
  /\ nextRoom' = nextRoom + 1
  /\ rooms' = rooms \cup {nextRoom + 1}
  /\ room' = [room EXCEPT ![c] = nextRoom + 1]
  /\ pc' = [pc EXCEPT ![c] = "join"]
  /\ UNCHANGED << Players, gsPlayers, ChatMessages, Mutex, loops, playerRoom,
                  Position, TargetPosition, Name, Color, Score, msg, chatLocal,
                  msgCount, wire >>
  /\ UNCHANGED outbound
  /\ UNCHANGED tsVars

\* The order in which a range over the map room.Players visits its keys: any.
RECURSIVE Orders(_)
Orders(ps) ==
  IF ps = {} THEN { << >> }
  ELSE UNION { { << c >> \o s : s \in Orders(ps \ {c}) } : c \in ps }

\* broadcastMessage over the players in the order o: sendMessage calls
\* Conn.WriteJSON for each in turn and drops the error it returns.  A write
\* to a blocked connection does not return (no write deadline is set), so
\* the players after it are not written to.  `to` is the set of players the
\* message was written to with success.
RECURSIVE broadcastMessage(_)
broadcastMessage(o) ==
  IF o = << >> THEN [to |-> {}, blocked |-> FALSE]
  ELSE IF outbound[Head(o)] = "blocked" THEN [to |-> {}, blocked |-> TRUE]
  ELSE LET rest == broadcastMessage(Tail(o))
       IN [to |-> IF outbound[Head(o)] = "ok"
                  THEN {Head(o)} \cup rest.to ELSE rest.to,
           blocked |-> rest.blocked]

\* joinRoom, line 170: room.Mutex.Lock() returns once the mutex is free.
joinRoomLock(c) ==
  /\ pc[c] = "join"
  /\ Mutex[room[c]] = Free
  /\ Mutex' = [Mutex EXCEPT ![room[c]] = ConnTask(c)]
  /\ pc' = [pc EXCEPT ![c] = "joining"]
  /\ UNCHANGED << rooms, nextRoom, Players, gsPlayers, ChatMessages, loops,
                  room, playerRoom, Position, TargetPosition, Name, Color,
                  Score, msg, chatLocal, msgCount, wire >>
  /\ UNCHANGED outbound
  /\ UNCHANGED tsVars

\* sendInitialState: a gameState message written to the new player alone.
sendInitialState(c) ==
  [OutMsg("gameState", {c}) EXCEPT !.players = gsPlayers[room[c]],
                                   !.remaining = gameDuration \div 1000]

\* joinRoom, lines 173-185 and the deferred Unlock: the player is put into
\* room.Players with no capacity check; the join that leaves the map with one
\* entry spawns startGame, any other join redraws the position and broadcasts
\* playerJoined to room.Players.  wsHandler then writes the initial state to
\* its own connection (line 109) and enters its read loop.
joinRoom(c) ==
  LET r == room[c]
      after == Players[r] \cup {c}
  IN
  /\ pc[c] = "joining"
  /\ playerRoom' = [playerRoom EXCEPT ![c] = r]
  /\ Players' = [Players EXCEPT ![r] = after]
  /\ IF Cardinality(after) = 1
     THEN /\ Len(loops[r]) < MaxLoops
          /\ loops' = [loops EXCEPT ![r] = Append(@, "start")]
          /\ wire' = << sendInitialState(c) >>
          /\ UNCHANGED << Position, TargetPosition >>
          /\ Mutex' = [Mutex EXCEPT ![r] = Free]
          /\ pc' = [pc EXCEPT ![c] = "read"]
     ELSE /\ \E p \in getRandomPosition :
               /\ Position' = [Position EXCEPT ![c] = p]
               /\ TargetPosition' = [TargetPosition EXCEPT ![c] = p]
          /\ loops' = loops
          /\ \E o \in Orders(after) :
               LET b == broadcastMessage(o)
                   joined == [OutMsg("playerJoined", b.to) EXCEPT
                                !.name = Name[c]]
               IN IF b.blocked
                  THEN /\ wire' = << joined >>
                       /\ Mutex' = Mutex
                       /\ pc' = [pc EXCEPT ![c] = "writing"]
                  ELSE /\ wire' = << joined, sendInitialState(c) >>
                       /\ Mutex' = [Mutex EXCEPT ![r] = Free]
                       /\ pc' = [pc EXCEPT ![c] = "read"]
  /\ UNCHANGED << rooms, nextRoom, gsPlayers, ChatMessages, room, Name, Color,
                  Score, msg, chatLocal, msgCount >>
  /\ UNCHANGED outbound
  /\ UNCHANGED tsVars

\* ------------------------------------------------ wsHandler: the read loop

\* conn.ReadMessage returns a message: processMessage is entered with it.
ReadMessage(c) ==
  /\ pc[c] = "read"
  /\ msgCount < MaxMsgs
  /\ \E m \in Inbound : msg' = [msg EXCEPT ![c] = m]
  /\ msgCount' = msgCount + 1
  /\ pc' = [pc EXCEPT ![c] = "process"]
  /\ UNCHANGED << rooms, nextRoom, Players, gsPlayers, ChatMessages, Mutex,
                  loops, room, playerRoom, Position, TargetPosition, Name,
                  Color, Score, chatLocal, wire >>
  /\ UNCHANGED outbound
  /\ UNCHANGED tsVars

\* conn.ReadMessage returns an error: wsHandler returns and its deferred
\* removePlayer runs.
ReadError(c) ==
  /\ pc[c] = "read"
  /\ Cardinality({ d \in Conns : pc[d] \in Leaving }) < MaxLeaves
  /\ pc' = [pc EXCEPT ![c] = "remove"]
  /\ UNCHANGED << rooms, nextRoom, Players, gsPlayers, ChatMessages, Mutex,
                  loops, room, playerRoom, Position, TargetPosition, Name,
                  Color, Score, msg, chatLocal, msgCount, wire >>
  /\ UNCHANGED outbound
  /\ UNCHANGED tsVars

\* processMessage, taking no lock.  A payload that does not unmarshal and a
\* type without a case (stop included) change nothing; join sets the name and
\* redraws the color; move shifts the target and the position and broadcasts
\* positionUpdate; chat reads the chat slice for its append.
processMessage(c) ==
  LET m == msg[c]
      r == playerRoom[c]
      tp == updatePlayerPosition(TargetPosition[c], m.direction)
  IN
  /\ pc[c] = "process"
  /\ CASE m.type = "join" ->
            /\ Name' = [Name EXCEPT ![c] = m.name]
            /\ \E col \in getRandomColor : Color' = [Color EXCEPT ![c] = col]
            /\ pc' = [pc EXCEPT ![c] = "read"]
            /\ UNCHANGED << TargetPosition, Position, wire, chatLocal >>
       [] m.type = "move" ->
            /\ TargetPosition' = [TargetPosition EXCEPT ![c] = tp]
            /\ Position' = [Position EXCEPT ![c] = tp]
            /\ \E o \in Orders(Players[r]) :
                 LET b == broadcastMessage(o) IN
                 /\ wire' = << [OutMsg("positionUpdate", b.to) EXCEPT
                                 !.playerID = c, !.x = tp.x, !.y = tp.y] >>
                 /\ pc' = [pc EXCEPT
                             ![c] = IF b.blocked THEN "writing" ELSE "read"]
            /\ UNCHANGED << Name, Color, chatLocal >>
       [] m.type = "chat" ->
            /\ chatLocal' = [chatLocal EXCEPT ![c] = ChatMessages[r]]
            /\ pc' = [pc EXCEPT ![c] = "append"]
            /\ UNCHANGED << Name, Color, TargetPosition, Position, wire >>
       [] OTHER ->
            /\ pc' = [pc EXCEPT ![c] = "read"]
            /\ UNCHANGED << Name, Color, TargetPosition, Position, wire,
                            chatLocal >>
  /\ msg' = [msg EXCEPT ![c] = IF m.type = "chat" THEN m ELSE NoInMsg]
  /\ UNCHANGED << rooms, nextRoom, Players, gsPlayers, ChatMessages, Mutex,
                  loops, room, playerRoom, Score, msgCount >>
  /\ UNCHANGED outbound
  /\ UNCHANGED tsVars

\* processMessage, chat: the appended slice is stored and the chat event is
\* broadcast to room.Players.
chatAppend(c) ==
  LET m == msg[c]
      r == playerRoom[c]
  IN
  /\ pc[c] = "append"
  /\ ChatMessages' =
       [ChatMessages EXCEPT ![r] = Append(chatLocal[c], Name[c] \o ": " \o m.message)]
  /\ \E o \in Orders(Players[r]) :
       LET b == broadcastMessage(o) IN
       /\ wire' = << [OutMsg("chat", b.to) EXCEPT
                       !.playerID = c, !.name = Name[c],
                       !.message = m.message] >>
       /\ pc' = [pc EXCEPT ![c] = IF b.blocked THEN "writing" ELSE "read"]
  /\ chatLocal' = [chatLocal EXCEPT ![c] = << >>]
  /\ msg' = [msg EXCEPT ![c] = NoInMsg]
  /\ UNCHANGED << rooms, nextRoom, Players, gsPlayers, Mutex, loops, room,
                  playerRoom, Position, TargetPosition, Name, Color, Score,
                  msgCount >>
  /\ UNCHANGED outbound
  /\ UNCHANGED tsVars

\* The client of connection c stops reading (the server's writes to it wait
\* from then on, for ever) or its connection breaks (the writes return an
\* error).
ConnFault(c) ==
  /\ pc[c] = "read"
  /\ outbound[c] = "ok"
  /\ Cardinality({ d \in Conns : outbound[d] # "ok" }) < MaxFaults
  /\ \E f \in {"broken", "blocked"} : outbound' = [outbound EXCEPT ![c] = f]
  /\ UNCHANGED << rooms, nextRoom, Players, gsPlayers, ChatMessages, Mutex,
                  loops, pc, room, playerRoom, Position, TargetPosition, Name,
                  Color, Score, msg, chatLocal, msgCount, wire >>
  /\ UNCHANGED tsVars

\* ------------------------------------------------- wsHandler: the disconnect

\* removePlayer, line 122: room.Mutex.Lock() returns once the mutex is free.
removePlayerLock(c) ==
  /\ pc[c] = "remove"
  /\ Mutex[room[c]] = Free
  /\ Mutex' = [Mutex EXCEPT ![room[c]] = ConnTask(c)]
  /\ pc' = [pc EXCEPT ![c] = "removing"]
  /\ UNCHANGED << rooms, nextRoom, Players, gsPlayers, ChatMessages, loops,
                  room, playerRoom, Position, TargetPosition, Name, Color,
                  Score, msg, chatLocal, msgCount, wire >>
  /\ UNCHANGED outbound
  /\ UNCHANGED tsVars

\* removePlayer, lines 125-130 and the deferred Unlock: the player leaves
\* room.Players, and a room left empty is deleted from the directory.
removePlayer(c) ==
  LET r == room[c]
      after == Players[r] \ {c}
  IN
  /\ pc[c] = "removing"
  /\ Players' = [Players EXCEPT ![r] = after]
  /\ playerRoom' = [playerRoom EXCEPT ![c] = NoRoom]
  /\ rooms' = IF after = {} THEN rooms \ {r} ELSE rooms
  /\ Mutex' = [Mutex EXCEPT ![r] = Free]
  /\ pc' = [pc EXCEPT ![c] = "closed"]
  /\ UNCHANGED << nextRoom, gsPlayers, ChatMessages, loops, room, Position,
                  TargetPosition, Name, Color, Score, msg, chatLocal, msgCount,
                  wire >>
  /\ UNCHANGED outbound
  /\ UNCHANGED tsVars

\* ------------------------------------------------------------- startGame

\* startGame, line 244: the goroutine takes the room's mutex; the deferred
\* Unlock runs only when startGame returns.
startGameLock(r, i) ==
  /\ i \in 1..Len(loops[r])
  /\ loops[r][i] = "start"
  /\ Mutex[r] = Free
  /\ Mutex' = [Mutex EXCEPT ![r] = LoopTask(i)]
  /\ loops' = [loops EXCEPT ![r][i] = "setup"]
  /\ UNCHANGED << rooms, nextRoom, Players, gsPlayers, ChatMessages, pc, room,
                  playerRoom, Position, TargetPosition, Name, Color, Score,
                  msg, chatLocal, msgCount, wire >>
  /\ UNCHANGED outbound
  /\ UNCHANGED tsVars

\* The positions startGame draws for the players in room.Players, one draw
\* per player.
RECURSIVE DrawPositions(_)
DrawPositions(ps) ==
  IF ps = {} THEN { << >> }
  ELSE LET c == CHOOSE d \in ps : \A e \in ps : d <= e
       IN { [k \in {c} \cup DOMAIN f |-> IF k = c THEN p ELSE f[k]] :
              p \in getRandomPosition, f \in DrawPositions(ps \ {c}) }

\* startGame, lines 247-256, still holding the mutex: every player of
\* room.Players gets a fresh position and is appended to GameState.Players;
\* the ticker is created.
startGame(r, i) ==
  /\ i \in 1..Len(loops[r])
  /\ loops[r][i] = "setup"
  /\ \E f \in DrawPositions(Players[r]), o \in Orders(Players[r]) :
       /\ Position' = [c \in Conns |-> IF c \in Players[r] THEN f[c] ELSE Position[c]]
       /\ TargetPosition' =
            [c \in Conns |-> IF c \in Players[r] THEN f[c] ELSE TargetPosition[c]]
       /\ gsPlayers' = [gsPlayers EXCEPT ![r] = @ \o o]
  /\ loops' = [loops EXCEPT ![r][i] = "select"]
  /\ UNCHANGED << rooms, nextRoom, Players, ChatMessages, Mutex, pc, room,
                  playerRoom, Name, Color, Score, msg, chatLocal, msgCount,
                  wire >>
  /\ UNCHANGED outbound
  /\ UNCHANGED tsVars

\* createBoard: boardSize rows of boardSize empty cells.  A board is kept as
\* the function from its claimed cells to their owner; the cells outside its
\* domain hold "".
createBoard == << >>

\* Room.GameState.Board: no statement of main.go writes a cell of it.
Board(r) == createBoard

\* countPlayerSquares: the number of cells equal to color.
countPlayerSquares(board, color) ==
  IF color = ""
  THEN boardSize * boardSize - Cardinality(DOMAIN board)
  ELSE Cardinality({ cell \in DOMAIN board : board[cell] = color })

\* updateGame: every player of room.Players gets the count of its color.
updateGame(r) ==
  [c \in Conns |->
     IF c \in Players[r] THEN countPlayerSquares(Board(r), Color[c]) ELSE Score[c]]

\* endGame's loop over the players in the order o: the winner is replaced
\* by each player whose score is above the best so far, which starts at 0.
RECURSIVE endGameWinner(_, _, _, _)
endGameWinner(o, score, winner, maxScore) ==
  IF o = << >> THEN winner
  ELSE IF score[Head(o)] > maxScore
       THEN endGameWinner(Tail(o), score, Head(o), score[Head(o)])
       ELSE endGameWinner(Tail(o), score, winner, maxScore)

\* The time since room.StartTime a tick can observe.
Elapsed == {gameInterval, gameDuration}

\* startGame, lines 259-271: the ticker fires and the goroutine calls
\* room.Mutex.Lock() again.  sync.Mutex is not reentrant: the call returns
\* only once the mutex is free, and until then the goroutine waits in it.
\* With the mutex taken, the tick recomputes the scores, and either ends the
\* game (gameOver to room.Players, the room deleted from the directory, the
\* goroutine returns) or broadcasts the game state; it unlocks either way.
tick(r, i) ==
  /\ i \in 1..Len(loops[r])
  /\ loops[r][i] \in {"select", "tickLock"}
  /\ IF Mutex[r] # Free
     THEN /\ loops' = [loops EXCEPT ![r][i] = "tickLock"]
          /\ UNCHANGED << rooms, Mutex, Score, wire >>
     ELSE \E elapsed \in Elapsed, o \in Orders(Players[r]),
             w \in Orders(Players[r]) :
            LET score == updateGame(r)
                remainingTime == gameDuration - elapsed
                b == broadcastMessage(w)
            IN
            /\ Score' = score
            /\ Mutex' = Mutex
            /\ IF remainingTime <= 0
               THEN /\ wire' = << [OutMsg("gameOver", b.to) EXCEPT
                                     !.winner = endGameWinner(o, score, 0, 0)] >>
                    /\ rooms' = IF b.blocked THEN rooms ELSE rooms \ {r}
                    /\ loops' = [loops EXCEPT
                                   ![r][i] = IF b.blocked THEN "writing"
                                             ELSE "returned"]
               ELSE /\ wire' = << [OutMsg("gameState", b.to) EXCEPT
                                     !.players = gsPlayers[r],
                                     !.remaining = remainingTime \div 1000] >>
                    /\ rooms' = rooms
                    /\ loops' = [loops EXCEPT
                                   ![r][i] = IF b.blocked THEN "writing"
                                             ELSE "select"]
  /\ UNCHANGED << nextRoom, Players, gsPlayers, ChatMessages, pc, room,
                  playerRoom, Position, TargetPosition, Name, Color, msg,
                  chatLocal, msgCount >>
  /\ UNCHANGED outbound
  /\ UNCHANGED tsVars

\* ================================================================ server.ts

\* The inbound record of server.ts: Message's fields a handler reads.
tsInMsg(t, d, n, m, sp) ==
  [type |-> t, direction |-> d, name |-> n, message |-> m, speed |-> sp]

\* The speed a move carries: static/game.js sends 5 with every move.
tsSpeeds == {5}

tsInbound ==
  { tsInMsg("join", "", "ann", "", 0),
    tsInMsg("chat", "", "", "hi", 0),
    tsInMsg("stop", "", "", "", 0),
    tsInMsg("ping", "", "", "", 0),
    tsInMsg("#malformed", "", "", "", 0) }
  \cup { tsInMsg("move", d, "", "", sp) :
           d \in {"up", "down", "left", "right"}, sp \in tsSpeeds }

\* getRandomPosition of server.ts: a point of one of the four sides.
tsGetRandomPosition ==
  { Pos(x, 0) : x \in tsRandCoords }
  \cup { Pos(tsBoardSize - 1, y) : y \in tsRandCoords }
  \cup { Pos(x, tsBoardSize - 1) : x \in tsRandCoords }
  \cup { Pos(0, y) : y \in tsRandCoords }

tsGetRandomColor == { tsColorSamples[i] : i \in 1..TsNumColors }

\* A bounds check that accepts every position: with it each claim is the
\* bare store.
tsNoBoundsCheck(p) == p.x = p.x

\* isValidPosition.
tsIsValidPosition(p) ==
  p.x >= 0 /\ p.x < tsBoardSize /\ p.y >= 0 /\ p.y < tsBoardSize

\* f with key k set to v.
Put(f, k, v) == [j \in DOMAIN f \cup {k} |-> IF j = k THEN v ELSE f[j]]

\* The statement board[p.y][p.x] = color on st = [board, threw]: with no row
\* p.y the store throws a TypeError, and nothing runs after a throw; with a
\* row, the entry (p.x, p.y) is set.
tsStore(st, p, color) ==
  IF st.threw THEN st
  ELSE IF p.y < 0 \/ p.y >= tsBoardSize THEN [st EXCEPT !.threw = TRUE]
  ELSE [st EXCEPT !.board = Put(@, << p.x, p.y >>, color)]

\* claimInitialTerritory's claimPositions: the cell and its 8 neighbours.
tsClaimPositions(p) ==
  << Pos(p.x, p.y), Pos(p.x - 1, p.y), Pos(p.x + 1, p.y), Pos(p.x, p.y - 1),
     Pos(p.x, p.y + 1), Pos(p.x - 1, p.y - 1), Pos(p.x - 1, p.y + 1),
     Pos(p.x + 1, p.y - 1), Pos(p.x + 1, p.y + 1) >>

\* One claim: the store, guarded by isValidPosition.
tsClaim(st, p, color) ==
  IF tsIsValidPosition(p) THEN tsStore(st, p, color) ELSE st

\* claimInitialTerritory: the claims of the 9 positions, in their order.
RECURSIVE tsClaimInitialTerritory(_, _, _)
tsClaimInitialTerritory(st, ps, color) ==
  IF ps = << >> THEN st
  ELSE tsClaimInitialTerritory(tsClaim(st, Head(ps), color), Tail(ps), color)

\* A count that takes the unowned cells for the color's own.
tsCountWithEmpty(board, color) ==
  tsBoardSize * tsBoardSize
    - Cardinality({ cell \in DOMAIN board : board[cell] # color })

\* countPlayerSquares.
tsCountPlayerSquares(board, color) ==
  IF color = ""
  THEN tsBoardSize * tsBoardSize - Cardinality(DOMAIN board)
  ELSE Cardinality({ cell \in DOMAIN board : board[cell] = color })

\* updateGame on st = [board, threw, score]: for each player of
\* gameState.players in turn, the claim of its position and then the count of
\* its color on the board as it stands.
RECURSIVE tsUpdateGame(_, _)
tsUpdateGame(st, ps) ==
  IF ps = << >> \/ st.threw THEN st
  ELSE LET c == Head(ps)
           cl == tsClaim([board |-> st.board, threw |-> st.threw],
                         tsPosition[c], tsColor[c])
       IN tsUpdateGame(
            [board |-> cl.board, threw |-> cl.threw,
             score |-> IF cl.threw THEN st.score
                       ELSE [st.score EXCEPT
                               ![c] = tsCountPlayerSquares(cl.board, tsColor[c])]],
            Tail(ps))

\* endGame's reduce over gameState.players, started with its first element:
\* a later player replaces the best only with a strictly higher score.
RECURSIVE tsReduce(_, _, _)
tsReduce(ps, best, score) ==
  IF ps = << >> THEN best
  ELSE tsReduce(Tail(ps),
                IF score[Head(ps)] > score[best] THEN Head(ps) ELSE best,
                score)

tsEndGameWinner(ps, score) ==
  IF ps = << >> THEN 0 ELSE tsReduce(ps, ps[1], score)

\* The claimed-coordinates record: every position a claim was made at, bounds
\* or no bounds, with the color of the last claim there.
RECURSIVE tsRecordClaims(_, _, _)
tsRecordClaims(g, ps, color) ==
  IF ps = << >> THEN g
  ELSE tsRecordClaims(Put(g, << Head(ps).x, Head(ps).y >>, color), Tail(ps), color)

RECURSIVE tsRecordTick(_, _)
tsRecordTick(g, ps) ==
  IF ps = << >> THEN g
  ELSE tsRecordTick(
         Put(g, << tsPosition[Head(ps)].x, tsPosition[Head(ps)].y >>,
             tsColor[Head(ps)]),
         Tail(ps))

SeqSet(q) == { q[k] : k \in DOMAIN q }
Remove(q, c) == SelectSeq(q, LAMBDA d : d # c)

\* findOrCreateRoom of server.ts: the first room of the Map, in insertion
\* order, with fewer than maxPlayers players; 0 when createRoom is needed.
tsFindRoom ==
  LET open == { r \in tsRooms : Len(tsPlayers[r]) < tsMaxPlayers }
  IN IF open = {} THEN 0 ELSE CHOOSE r \in open : \A q \in open : r <= q

\* socket.onopen: createPlayer, findOrCreateRoom (with createRoom) and
\* joinRoom, in one run of the handler.  joinRoom puts the player into
\* room.players with no capacity check; the join that leaves the Map with one
\* entry runs startGame (start time, fresh positions, the players pushed to
\* gameState.players, the interval set); any other join redraws the position,
\* claims the initial territory and broadcasts playerJoined.
tsOnOpen(c) ==
  LET found == tsFindRoom
      r == IF found = 0 THEN tsNextRoom + 1 ELSE found
      after == Append(tsPlayers[r], c)
  IN
  /\ tsSock[c] = "new"
  /\ \A d \in Conns : d < c => tsSock[d] # "new"
  /\ found = 0 => tsNextRoom < MaxRooms
  /\ tsSock' = [tsSock EXCEPT ![c] = "open"]
  /\ tsNextRoom' = IF found = 0 THEN tsNextRoom + 1 ELSE tsNextRoom
  /\ tsRooms' = tsRooms \cup {r}
  /\ tsRoom' = [tsRoom EXCEPT ![c] = r]
  /\ tsPlayers' = [tsPlayers EXCEPT ![r] = after]
  /\ \E col \in tsGetRandomColor, p \in tsGetRandomPosition :
       /\ tsColor' = [tsColor EXCEPT ![c] = col]
       /\ tsPosition' = [tsPosition EXCEPT ![c] = p]
       /\ tsTarget' = [tsTarget EXCEPT ![c] = p]
       /\ IF Len(after) = 1
          THEN /\ tsStart' = [tsStart EXCEPT ![r] = tsNow]
               /\ tsGsPlayers' = [tsGsPlayers EXCEPT ![r] = @ \o after]
               /\ tsInterval' = [tsInterval EXCEPT ![r] = TRUE]
               /\ UNCHANGED << tsBoard, tsClaimed, tsWire, tsError >>
          ELSE LET st == tsClaimInitialTerritory(
                           [board |-> tsBoard[r], threw |-> FALSE],
                           tsClaimPositions(p), col)
               IN
               /\ tsBoard' = [tsBoard EXCEPT ![r] = st.board]
               /\ tsClaimed' =
                    [tsClaimed EXCEPT
                       ![r] = tsRecordClaims(@, tsClaimPositions(p), col)]
               /\ IF st.threw
                  THEN tsError' = "onopen" /\ tsWire' = tsWire
                  ELSE /\ tsWire' = << [OutMsg("playerJoined", SeqSet(after))
                                          EXCEPT !.name = tsName[c]] >>
                       /\ tsError' = tsError
               /\ UNCHANGED << tsStart, tsGsPlayers, tsInterval >>
  /\ UNCHANGED << tsChat, tsNow, tsName, tsScore, tsMsgCount, tsLastCmd,
                  tsTicks >>
  /\ UNCHANGED goVars

\* updatePlayerPosition of server.ts: the target moves by the message's speed
\* along the named axis, with no bound check, and the position is the target.
tsUpdatePlayerPosition(tp, direction, speed) ==
  CASE direction = "up"    -> Pos(tp.x, tp.y - speed)
    [] direction = "down"  -> Pos(tp.x, tp.y + speed)
    [] direction = "left"  -> Pos(tp.x - speed, tp.y)
    [] direction = "right" -> Pos(tp.x + speed, tp.y)
    [] OTHER               -> tp

\* A stop that sends the target back to the origin.
tsStopAtOrigin(c) == Pos(0, 0)

\* processMessage, case "stop": player.targetPosition = player.position.
tsStopTarget(c) == tsPosition[c]

\* What a processed message of type t makes of the socket's last command.
tsCmdAfter(last, t) ==
  CASE t = "move" -> "move"
    [] t = "stop" -> IF last = "move" THEN "move-stop" ELSE last
    [] OTHER      -> IF last = "move" THEN "" ELSE last

\* The server process exits: its sockets, rooms and timers are gone.
tsExit ==
  /\ tsSock' = [c \in Conns |-> "down"]
  /\ tsRoom' = [c \in Conns |-> NoRoom]
  /\ tsRooms' = {}
  /\ tsPlayers' = [r \in RoomIds |-> << >>]
  /\ tsInterval' = [r \in RoomIds |-> FALSE]

\* The server process goes on.
tsStay == UNCHANGED << tsSock, tsRoom, tsRooms, tsPlayers, tsInterval >>

\* socket.onmessage: JSON.parse and processMessage for the socket's player.
\* On a malformed payload JSON.parse throws (as does message.type on a
\* payload that parses to null); nothing in the handler catches it, and the
\* runtime either reports the uncaught error and goes on or exits on it.
tsOnMessage(c) ==
  LET r == tsRoom[c] IN
  /\ tsSock[c] = "open"
  /\ tsMsgCount < MaxMsgs
  /\ tsMsgCount' = tsMsgCount + 1
  /\ \E m \in tsInbound :
       LET tp == tsUpdatePlayerPosition(tsTarget[c], m.direction, m.speed) IN
       /\ tsLastCmd' = [tsLastCmd EXCEPT
                          ![c] = IF m.type = "#malformed" THEN @
                                 ELSE tsCmdAfter(@, m.type)]
       /\ IF m.type = "#malformed" THEN tsStay \/ tsExit ELSE tsStay
       /\ CASE m.type = "#malformed" ->
              /\ tsError' = "onmessage"
              /\ UNCHANGED << tsName, tsColor, tsPosition, tsTarget, tsChat,
                              tsWire >>
         [] m.type = "join" /\ r # NoRoom ->
              /\ tsName' = [tsName EXCEPT ![c] = m.name]
              /\ \E col \in tsGetRandomColor :
                   tsColor' = [tsColor EXCEPT ![c] = col]
              /\ UNCHANGED << tsPosition, tsTarget, tsChat, tsWire, tsError >>
         [] m.type = "move" /\ r # NoRoom ->
              /\ tsTarget' = [tsTarget EXCEPT ![c] = tp]
              /\ tsPosition' = [tsPosition EXCEPT ![c] = tp]
              /\ tsWire' = << [OutMsg("positionUpdate", SeqSet(tsPlayers[r]))
                                 EXCEPT !.playerID = c, !.x = tp.x, !.y = tp.y] >>
              /\ UNCHANGED << tsName, tsColor, tsChat, tsError >>
         [] m.type = "stop" /\ r # NoRoom ->
              /\ tsTarget' = [tsTarget EXCEPT ![c] = tsStopTarget(c)]
              /\ UNCHANGED << tsName, tsColor, tsPosition, tsChat, tsWire,
                              tsError >>
         [] m.type = "chat" /\ r # NoRoom ->
              /\ tsChat' = [tsChat EXCEPT
                              ![r] = Append(@, tsName[c] \o ": " \o m.message)]
              /\ tsWire' = << [OutMsg("chat", SeqSet(tsPlayers[r])) EXCEPT
                                 !.playerID = c, !.name = tsName[c],
                                 !.message = m.message] >>
              /\ UNCHANGED << tsName, tsColor, tsPosition, tsTarget, tsError >>
         [] OTHER ->
              UNCHANGED << tsName, tsColor, tsPosition, tsTarget, tsChat,
                           tsWire, tsError >>
  /\ UNCHANGED << tsNextRoom, tsGsPlayers, tsBoard, tsStart, tsNow, tsScore,
                  tsClaimed, tsTicks >>
  /\ UNCHANGED goVars

\* socket.onclose: leaveRoom (the player leaves room.players; a room left
\* empty is deleted from rooms) and the player leaves playerMap.
tsOnClose(c) ==
  LET r == tsRoom[c]
      after == Remove(tsPlayers[r], c)
  IN
  /\ tsSock[c] = "open"
  /\ Cardinality({ d \in Conns : tsSock[d] = "closed" }) < MaxLeaves
  /\ tsSock' = [tsSock EXCEPT ![c] = "closed"]
  /\ tsPlayers' = [tsPlayers EXCEPT ![r] = after]
  /\ tsRoom' = [tsRoom EXCEPT ![c] = NoRoom]
  /\ tsRooms' = IF after = << >> THEN tsRooms \ {r} ELSE tsRooms
  /\ UNCHANGED << tsNextRoom, tsGsPlayers, tsBoard, tsChat, tsStart, tsInterval,
                  tsNow, tsPosition, tsTarget, tsName, tsColor, tsScore, tsWire,
                  tsError, tsClaimed, tsMsgCount, tsLastCmd, tsTicks >>
  /\ UNCHANGED goVars

\* The time that has passed when an interval callback runs.
tsElapse == {tsGameInterval, tsGameDuration}

\* The Player object of socket c, with the scores score.
tsPlayer(c, score) ==
  [id |-> c, name |-> tsName[c], color |-> tsColor[c], score |-> score[c],
   position |-> tsPosition[c], targetPosition |-> tsTarget[c],
   moveStartTime |-> 0, socket |-> c, room |-> tsRoom[c]]

\* A copy that leaves no field out.
tsKeepAll(p) == [f \in DOMAIN p |-> p[f]]

\* broadcastGameState's `const { room, socket, ...playerData } = player`.
tsStrip(p) == [f \in DOMAIN p \ {"room", "socket"} |-> p[f]]

\* broadcastGameState's playersData: gameState.players, each stripped.
tsPlayersData(ps, score) ==
  [k \in DOMAIN ps |-> tsStrip(tsPlayer(ps[k], score))]

\* broadcastMessage's winner record: the seven fields it copies, or
\* undefined (the record of id 0) for no winner.
tsWinnerData(w, score) ==
  IF w = 0 THEN [id |-> 0]
  ELSE LET p == tsPlayer(w, score)
       IN [id |-> p.id, name |-> p.name, color |-> p.color, score |-> p.score,
           position |-> p.position, targetPosition |-> p.targetPosition,
           moveStartTime |-> p.moveStartTime]

\* The setInterval callback of startGame: updateGame; with no time remaining
\* endGame (gameOver with the winner to room.players, the room deleted from
\* rooms) and clearInterval; then, in every case, broadcastGameState to
\* room.players.
tsTick(r) ==
  /\ tsInterval[r]
  /\ tsTicks < MaxTicks
  /\ tsTicks' = tsTicks + 1
  /\ \E dt \in tsElapse :
       LET now == tsNow + dt
           st == tsUpdateGame(
                   [board |-> tsBoard[r], threw |-> FALSE, score |-> tsScore],
                   tsGsPlayers[r])
           remainingTime == tsGameDuration - (now - tsStart[r])
           to == SeqSet(tsPlayers[r])
           over == [OutMsg("gameOver", to) EXCEPT
                      !.winner = tsWinnerData(
                                   tsEndGameWinner(tsGsPlayers[r], st.score),
                                   st.score)]
           state == [OutMsg("gameState", to) EXCEPT
                       !.players = tsPlayersData(tsGsPlayers[r], st.score),
                       !.remaining = remainingTime \div 1000]
       IN
       /\ tsNow' = now
       /\ tsBoard' = [tsBoard EXCEPT ![r] = st.board]
       /\ tsScore' = st.score
       /\ tsClaimed' = [tsClaimed EXCEPT ![r] = tsRecordTick(@, tsGsPlayers[r])]
       /\ IF st.threw
          THEN /\ tsError' = "tick"
               /\ UNCHANGED << tsRooms, tsInterval, tsWire >>
          ELSE /\ tsError' = tsError
               /\ IF remainingTime <= 0
                  THEN /\ tsRooms' = tsRooms \ {r}
                       /\ tsInterval' = [tsInterval EXCEPT ![r] = FALSE]
                       /\ tsWire' = << over, state >>
                  ELSE /\ tsWire' = << state >>
                       /\ UNCHANGED << tsRooms, tsInterval >>
  /\ UNCHANGED << tsNextRoom, tsPlayers, tsGsPlayers, tsChat, tsStart, tsSock,
                  tsRoom, tsPosition, tsTarget, tsName, tsColor, tsMsgCount,
                  tsLastCmd >>
  /\ UNCHANGED goVars

\* ------------------------------------------------------------------- Next

\* The steps of connection c's wsHandler up to its read loop and after it.
Connect(c) ==
  \/ findOrCreateRoom(c)
  \/ createRoom(c)
  \/ joinRoomLock(c)
  \/ joinRoom(c)

Disconnect(c) ==
  \/ ReadError(c)
  \/ removePlayerLock(c)
  \/ removePlayer(c)

\* The steps of connection c's read loop.
Handle(c) ==
  \/ ReadMessage(c)
  \/ processMessage(c)
  \/ chatAppend(c)

\* The steps of the startGame goroutines.
Loop ==
  \E r \in RoomIds, i \in 1..MaxLoops :
    \/ startGameLock(r, i)
    \/ startGame(r, i)
    \/ tick(r, i)

\* The server with NumTalkers clients, which connect, send messages and
\* disconnect.
Next ==
  \/ \E c \in Talkers : Connect(c) \/ Handle(c) \/ Disconnect(c)
  \/ Loop

Spec == Init /\ [][Next]_vars

\* The server with NumConns clients, which connect and disconnect and send
\* nothing.
CrowdNext ==
  \/ \E c \in Conns : Connect(c) \/ Disconnect(c)
  \/ Loop

SpecCrowd == Init /\ [][CrowdNext]_vars

\* The server with NumTalkers clients whose outbound channels may fail.
FaultyNext ==
  \/ Next
  \/ \E c \in Talkers : ConnFault(c)

SpecFaulty == Init /\ [][FaultyNext]_vars

\* The Deno server: its handlers run one at a time, each to completion.
tsNext ==
  \/ \E c \in tsConns : tsOnOpen(c) \/ tsOnClose(c)
  \/ \E c \in Talkers : tsOnMessage(c)
  \/ \E r \in RoomIds : tsTick(r)

SpecTs == Init /\ [][tsNext]_vars

\* The Go server under the scheduling the runtime gives: a goroutine that can
\* take a step takes it, and a goroutine waiting in Lock gets the mutex if it
\* is free again and again (the mutex hands over to starved waiters).  What
\* the clients do (connect, send, fail) is under no fairness.
Fairness ==
  /\ \A c \in Talkers :
        /\ WF_vars(createRoom(c) \/ joinRoom(c) \/ processMessage(c)
                     \/ chatAppend(c) \/ removePlayer(c))
        /\ SF_vars(joinRoomLock(c))
        /\ SF_vars(removePlayerLock(c))
  /\ \A r \in RoomIds, i \in 1..MaxLoops :
        /\ SF_vars(startGameLock(r, i))
        /\ WF_vars(startGame(r, i))
        /\ WF_vars(tick(r, i))

FairSpec == Spec /\ Fairness

\* ----------------------------------------------------------------- claims

InGrid(p) == p.x >= 0 /\ p.x < boardSize /\ p.y >= 0 /\ p.y < boardSize

\* C1 (capacity): in every reachable state every room has at most maxPlayers
\* sessions in its Players map.
C1_Capacity == \A r \in RoomIds : Cardinality(Players[r]) <= maxPlayers

\* C2 (timer expiry ends the room): once a room's game loop has started, the
\* loop eventually ends the game: it returns and the room is out of the
\* directory.
C2_LoopEndsRoom ==
  \A r \in RoomIds :
    (Len(loops[r]) > 0)
      ~> (Len(loops[r]) > 0 /\ loops[r][1] = "returned" /\ r \notin rooms)

\* C3 (single serialization point): no step of a message handler writes a
\* session's name, color or position (join, move) or the room's chat log
\* (chat) while another task holds that room's lock.
C3_NoWriteInLockedSection ==
  [][\A c \in Conns :
       (/\ processMessage(c) \/ chatAppend(c)
        /\ \/ Name'[c] # Name[c]
           \/ Position'[c] # Position[c]
           \/ TargetPosition'[c] # TargetPosition[c]
           \/ ChatMessages' # ChatMessages)
       => Mutex[room[c]] \in {Free, ConnTask(c)}]_vars

\* C7 (the game loop starts once per room): no room ever has a second
\* startGame task started for it.
C7_OneLoopPerRoom == \A r \in RoomIds : Len(loops[r]) <= 1

\* C8 (last leave removes the room): when the only session of a room whose
\* loop has started disconnects, its leave completes and the room, left
\* empty, is out of the directory.
C8_LastLeaveRemovesRoom ==
  \A c \in Talkers :
    (pc[c] = "remove" /\ Players[room[c]] = {c} /\ Len(loops[room[c]]) > 0)
      ~> (/\ pc[c] = "closed"
          /\ c \notin Players[room[c]]
          /\ (Players[room[c]] = {} => room[c] \notin rooms))

\* C9 (a disconnect becomes a leave): a connection that failed on receive is
\* eventually out of its room's Players map.
C9_DisconnectLeaves ==
  \A c \in Talkers :
    (pc[c] = "remove") ~> (pc[c] = "closed" /\ c \notin Players[room[c]])

\* C10 (positions stay in the grid): the position and the target position of
\* every connected session have both coordinates in [0, boardSize).
C10_PositionsInGrid ==
  \A c \in Conns :
    pc[c] # "accept" => InGrid(Position[c]) /\ InGrid(TargetPosition[c])

\* --------------------------------------------------- claims on server.ts

tsInGrid(cell) ==
  cell[1] >= 0 /\ cell[1] < tsBoardSize /\ cell[2] >= 0 /\ cell[2] < tsBoardSize

\* C4 (score equals cell count): at the end of every tick of a room, each
\* session in the room has as its score the number of cells of the room's
\* grid that its color owns.
C4_ScoreEqualsCellCount ==
  [][\A r \in RoomIds :
       tsTick(r) =>
         \A c \in SeqSet(tsPlayers'[r]) :
           tsScore'[c] = tsCountPlayerSquares(tsBoard'[r], tsColor'[c])]_vars

\* C5 (last-write-wins claims): every owned cell lies in the grid and is
\* owned by the color of the last claim made at it, every claim made at a
\* cell of the grid took effect, and no claim raised an error.
C5_LastWriteWins ==
  /\ tsError \notin {"onopen", "tick"}
  /\ \A r \in RoomIds :
       /\ \A cell \in DOMAIN tsBoard[r] :
            /\ tsInGrid(cell)
            /\ cell \in DOMAIN tsClaimed[r]
            /\ tsBoard[r][cell] = tsClaimed[r][cell]
       /\ \A cell \in DOMAIN tsClaimed[r] :
            tsInGrid(cell) => cell \in DOMAIN tsBoard[r]

\* A state of C5's case: claims were made outside the grid, and a cell of a
\* later joiner's 3x3 block is owned by the other color of a session
\* standing on it, whose tick claim came last.
C5_Witness ==
  \E r \in RoomIds, c \in tsConns, d \in tsConns :
    /\ Len(tsPlayers[r]) = 2
    /\ tsPlayers[r][1] = c /\ tsPlayers[r][2] = d
    /\ tsColor[c] # tsColor[d]
    /\ tsPosition[c] = tsPosition[d]
    /\ tsTicks = 2
    /\ << tsPosition[c].x, tsPosition[c].y >> \in DOMAIN tsBoard[r]
    /\ tsBoard[r][<< tsPosition[c].x, tsPosition[c].y >>] = tsColor[c]
    /\ tsScore[c] = 1
    /\ \E cell \in DOMAIN tsClaimed[r] : ~tsInGrid(cell)

\* C6 (winner selection): a gameOver event sent to the sessions of a room
\* names as winner one of these sessions, whose score is at least the score
\* of each of them.
C6_WinnerIsTopSession ==
  \A k \in DOMAIN tsWire :
    (tsWire[k].type = "gameOver" /\ tsWire[k].to # {})
    => /\ tsWire[k].winner.id \in tsWire[k].to
       /\ \A d \in tsWire[k].to : tsScore[tsWire[k].winner.id] >= tsScore[d]

\* C11 (move then stop): once a socket's move has been followed at once by
\* its stop, its target position equals its position, and no step (a tick,
\* another socket's message, a join or a leave) changes either of them until
\* its next move is processed.
C11_MoveThenStop ==
  [][\A c \in tsConns :
       /\ tsLastCmd'[c] = "move-stop" => tsTarget'[c] = tsPosition'[c]
       /\ (tsLastCmd[c] = "move-stop" /\ tsLastCmd'[c] = "move-stop")
          => (tsPosition'[c] = tsPosition[c] /\ tsTarget'[c] = tsTarget[c])]_vars

\* A state of C11's case: a socket has moved off its spawn cell and stopped,
\* and the interval callback has run and sent its game state since the move.
C11_Witness ==
  \E c \in tsConns :
    /\ tsLastCmd[c] = "move-stop"
    /\ tsSock[c] = "open"
    /\ tsPosition[c] \notin tsGetRandomPosition
    /\ tsTicks = MaxTicks
    /\ tsWire # << >> /\ tsWire[Len(tsWire)].type = "gameState"

\* The sum of the scores of the players ps.
RECURSIVE SumScores(_, _)
SumScores(ps, score) ==
  IF ps = << >> THEN 0 ELSE score[Head(ps)] + SumScores(Tail(ps), score)

C13_SoloStart ==
  \A c \in Talkers :
    (/\ pc[c] = "read"
     /\ room[c] # NoRoom
     /\ Players[room[c]] = {c}
     /\ Len(loops[room[c]]) > 0)
      ~> (\/ pc[c] \in Leaving
          \/ room[c] # NoRoom /\ Players[room[c]] # {c}
          \/ Score[c] = 1)

\* Connection c's next statement writes the directory map: the insert of
\* createRoom, or removePlayer's delete of the room it leaves empty.
DirWriter(c) ==
  \/ pc[c] = "create"
  \/ pc[c] = "removing" /\ Players[room[c]] = {c}

\* The room locks connection c holds.
HeldLocks(c) == { r \in RoomIds : Mutex[r] = ConnTask(c) }

\* C14 (directory mutation is race-free): no two connection tasks are both
\* at a write of the directory map without a lock they both hold.
C14_DirectoryRaceFree ==
  \A c \in Conns, d \in Conns :
    (c # d /\ DirWriter(c) /\ DirWriter(d))
    => HeldLocks(c) \cap HeldLocks(d) # {}

\* C15 (broadcast failure isolation): every broadcast a handler makes
\* (playerJoined of a join, positionUpdate of a move, chat) is written to
\* every session of the room whose own channel works.
C15_BroadcastIsolation ==
  [][\A c \in Conns :
       (\/ joinRoom(c) /\ Players'[room[c]] # {c}
        \/ processMessage(c) /\ msg[c].type = "move"
        \/ chatAppend(c))
       => { d \in Players'[room[c]] : outbound[d] = "ok" } \subseteq wire'[1].to]_vars

\* C16 (protocol errors are ignored): the handling of a malformed inbound
\* message leaves the sockets, the rooms and their sessions, grids and chat
\* logs, and every session's name, color, position and score as they were,
\* and sends nothing.
C16_MalformedIgnored ==
  [][\A c \in tsConns :
       (tsOnMessage(c) /\ tsError = "" /\ tsError' = "onmessage")
       => /\ tsSock'[c] = "open"
          /\ tsRoom'[c] = tsRoom[c]
          /\ UNCHANGED << tsRooms, tsPlayers, tsBoard, tsChat, tsName, tsColor,
                          tsPosition, tsTarget, tsScore, tsWire >>]_vars

\* The fields of Player that are internal to the server.
tsInternalFields == {"socket", "room"}

C18_JoinRejectsOnFull ==
  [][\A c \in Conns :
       (joinRoom(c) /\ Cardinality(Players[room[c]]) >= maxPlayers)
       => Players' = Players]_vars

\* C19 (the game loop holds the room lock only inside a tick): a startGame
\* goroutine that is suspended in its select, waiting for the ticker, does
\* not hold the room's mutex.
C19_LoopLockOnlyInTick ==
  \A r \in RoomIds :
    \A i \in 1..Len(loops[r]) :
      loops[r][i] = "select" => Mutex[r] # LoopTask(i)

\* C20 (the per-tick claim covers every active session): at the end of every
\* tick of a room, the cell under each session of the room that stands in
\* the grid is owned by the color of a session of the room standing on it.
C20_TickClaimsEverySession ==
  [][\A r \in RoomIds :
       tsTick(r) =>
         \A c \in SeqSet(tsPlayers'[r]) :
           tsIsValidPosition(tsPosition'[c]) =>
             LET cell == << tsPosition'[c].x, tsPosition'[c].y >> IN
             /\ cell \in DOMAIN tsBoard'[r]
             /\ \E d \in SeqSet(tsPlayers'[r]) :
                  /\ tsPosition'[d] = tsPosition'[c]
                  /\ tsBoard'[r][cell] = tsColor'[d]]_vars

\* C21 (the snapshot lists the current sessions): the players list of every
\* game state a tick sends holds one record for each session in the room's
\* players map at that tick, and no other record.
C21_SnapshotListsSessions ==
  \A k \in DOMAIN tsWire :
    (tsWire[k].type = "gameState" /\ tsWire[k].to # {}) =>
      /\ { tsWire[k].players[j].id : j \in DOMAIN tsWire[k].players }
           = tsWire[k].to
      /\ Len(tsWire[k].players) = Cardinality(tsWire[k].to)

\* C22 (gameOver is the last message of a room's loop): among the messages
\* of one interval callback no game state follows a gameOver, and every
\* game state carries remaining >= 0.
C22_GameOverIsLast ==
  \A k \in DOMAIN tsWire :
    tsWire[k].type = "gameState" =>
      /\ tsWire[k].remaining >= 0
      /\ \A j \in 1..(k - 1) : tsWire[j].type # "gameOver"

\* The in-grid cells of the 3x3 block centred on position p.
InitialBlock(p) ==
  { cell \in ((p.x - 1)..(p.x + 1)) \X ((p.y - 1)..(p.y + 1)) :
      InGrid(Pos(cell[1], cell[2])) }

\* C23 (a non-first join claims a 3x3 block and announces): when a
\* connection joins a room that already holds a player, after the join the
\* in-grid cells of the 3x3 block centred on its new position hold its
\* color, every other cell is as before, and a playerJoined message goes to
\* every player of the room, the joiner included.
C23_JoinClaimsBlock ==
  [][ \A c \in Conns :
        (joinRoom(c) /\ Players[room[c]] # {}) =>
          LET r == room[c]
              block == InitialBlock(Position'[c])
          IN /\ \A cell \in block :
                  /\ cell \in DOMAIN Board(r)'
                  /\ Board(r)'[cell] = Color'[c]
             /\ \A cell \in DOMAIN Board(r)' \ block :
                  /\ cell \in DOMAIN Board(r)
                  /\ Board(r)'[cell] = Board(r)[cell]
             /\ wire'[1].type = "playerJoined"
             /\ wire'[1].to = Players'[r] ]_vars

\* C24 (the chat log is complete and ordered): the write that ends the
\* processing of a chat message leaves the room's chat log equal to the log
\* just before it with the one entry "<name>: <message>" appended, so that
\* no entry is lost or duplicated, and the chat event carries the sender's
\* id, name and text.
C24_ChatLogComplete ==
  [][ \A c \in Conns :
        chatAppend(c) =>
          LET r == playerRoom[c] IN
          /\ ChatMessages'[r] =
               Append(ChatMessages[r], Name[c] \o ": " \o msg[c].message)
          /\ wire'[1].type = "chat"
          /\ wire'[1].playerID = c
          /\ wire'[1].name = Name[c]
          /\ wire'[1].message = msg[c].message ]_vars

\* The position reached from tp by a step of sp in the named direction.
Stepped(tp, direction, sp) ==
  CASE direction = "up"    -> Pos(tp.x, tp.y - sp)
    [] direction = "down"  -> Pos(tp.x, tp.y + sp)
    [] direction = "left"  -> Pos(tp.x - sp, tp.y)
    [] direction = "right" -> Pos(tp.x + sp, tp.y)
    [] OTHER               -> tp

\* C25 (a move applies the requested delta): a move message changes the
\* sender's target position by the speed the message carries along the named
\* axis, sets its position to the target, leaves every other player's
\* position alone, and sends a positionUpdate with the sender's id and new
\* position to every player of the room.
C25_MoveAppliesDelta ==
  [][ \A c \in Conns :
        (processMessage(c) /\ msg[c].type = "move") =>
          /\ \A sp \in tsSpeeds :
               TargetPosition'[c] =
                 Stepped(TargetPosition[c], msg[c].direction, sp)
          /\ Position'[c] = TargetPosition'[c]
          /\ \A d \in Conns \ {c} : Position'[d] = Position[d]
          /\ wire'[1].type = "positionUpdate"
          /\ wire'[1].playerID = c
          /\ Pos(wire'[1].x, wire'[1].y) = Position'[c]
          /\ wire'[1].to = Players[playerRoom[c]] ]_vars

\* C26 (a departed session stops acting): in a tick of a room, for a socket
\* that has closed, the score is left as it was, every cell the tick sets to
\* its color lies under a player still in the room with that color, and a
\* gameOver the tick sends does not name it as the winner.
C26_DepartedStopsActing ==
  [][ \A r \in RoomIds :
        tsTick(r) =>
          \A c \in tsConns :
            tsSock[c] = "closed" =>
              /\ tsScore'[c] = tsScore[c]
              /\ \A cell \in DOMAIN tsBoard'[r] :
                   ( /\ tsBoard'[r][cell] = tsColor[c]
                     /\ \/ cell \notin DOMAIN tsBoard[r]
                        \/ tsBoard[r][cell] # tsColor[c] )
                   => \E d \in SeqSet(tsPlayers[r]) :
                        /\ tsColor[d] = tsColor[c]
                        /\ cell = << tsPosition[d].x, tsPosition[d].y >>
              /\ \A k \in DOMAIN tsWire' :
                   tsWire'[k].type = "gameOver" => tsWire'[k].winner.id # c
    ]_vars

\* C27 (sessions live only in listed rooms): every room that holds at least
\* one player is in the rooms map; no interleaving of one connection's
\* findOrCreateRoom and joinRoom with another connection's removePlayer puts
\* a player into a room that has been deleted from the map.
C27_PlayersInListedRooms ==
  \A r \in RoomIds : Players[r] # {} => r \in rooms

====
